---- MODULE Spec2Model ----
(***************************************************************************)
(* Meeting scheduler: conflict detection, narrow and broad slot search,    *)
(* the four-tier decision pipeline, the calendar fetch fan-out, the        *)
(* rescheduling applier and the request handler's retry loop.              *)
(*                                                                         *)
(* Time is counted in ticks of 15 minutes since 00:00 of day 0.  A         *)
(* timestamp string is a record [clock, suffix]: the date-time text and    *)
(* the UTC-offset text that follows it.                                    *)
(***************************************************************************)
EXTENDS Integers, Sequences, FiniteSets, TLC

VARIABLES
    request,            \* input_request: [From, Attendees, Subject]
    window,             \* what the time-window extractor answers for the request
    calendar,           \* the calendar service: email -> list of events
    pc,                 \* position of the handler / pipeline
    retry_count,        \* schedule_meeting: retry_count
    proposed_time,      \* intelligent_meeting_scheduler: proposed_time
    futures,            \* fetch fan-out: the state of each submitted retrieval
    attendee_events,    \* the snapshot: email -> reference of a list (or None)
    heap,               \* list objects: reference -> sequence of events
    has_conflicts,      \* result of has_conflict: flag
    conflicting_meetings, \* result of has_conflict: records
    first_available,    \* result of find_first_free_slot_in_window
    free_slots,         \* find_free_slots: free_slots, then its result
    current_time,       \* find_free_slots: current_time
    end_time,           \* find_free_slots: end_time
    decision,           \* the decision dict
    updated_events,     \* apply_rescheduling_to_attendee_events: updated_events
    reapplied,          \* the applier's result when run on its own result
    response,           \* process_scheduler_results: response["Attendees"]
    stages,             \* stages the current pipeline run has executed, in order
    tier,               \* which return statement ended the current run (0: none)
    error               \* exception raised in the current run ("" if none)

vars == <<request, window, calendar, pc, retry_count, proposed_time, futures,
          attendee_events, heap, has_conflicts, conflicting_meetings,
          first_available, free_slots, current_time, end_time, decision, updated_events, reapplied,
          response, stages, tier, error>>

-----------------------------------------------------------------------------
(* Bounds of the model *)

MaxEvents == 2          \* events per attendee calendar

-----------------------------------------------------------------------------
(* Program constants *)

TicksPerHour == 60 \div 15
TicksPerDay == 24 * TicksPerHour
Stride == 30 \div 15                \* timedelta(minutes=30)
NineAM == 9 * TicksPerHour          \* replace(hour=9, minute=0, ...)
HorizonDays == 2                    \* timedelta(days=2)
MaxSlots == 5                       \* free_slots[:5]
max_retries == 2
IST == "+05:30"
OffHours == "Off Hours"

-----------------------------------------------------------------------------
(* Timestamps *)

\* Python's None, as a timestamp-shaped value
None == [clock |-> 0, suffix |-> "None"]

\* truthiness of a timestamp string or None
Truthy(s) == s.suffix # "None"

\* format_time: datetime -> "%Y-%m-%dT%H:%M:%S+05:30"
format_time(dt) == [clock |-> dt, suffix |-> IST]

\* parse_time: the naive datetime of a timestamp string that parses
parse_time(time_str) == time_str.clock

\* what datetime.fromisoformat makes of the text after the replacement:
\* a naive datetime, an aware one, or an exception
Kind(s) ==
    IF s.suffix \in {IST, ""} THEN "naive"
    ELSE IF s.suffix \in {"+00:00", "Z"} THEN "aware"
    ELSE "bad"

\* position of an offset text in the order of Python's str comparison
SuffixRank(x) ==
    CASE x = "" -> 0
      [] x = "+00:00" -> 1
      [] x = IST -> 2
      [] x = "Z" -> 3
      [] OTHER -> 4

\* order of two timestamp strings as Python compares str
StrLess(a, b) ==
    \/ a.clock < b.clock
    \/ a.clock = b.clock /\ SuffixRank(a.suffix) < SuffixRank(b.suffix)

-----------------------------------------------------------------------------
(* Events *)

Event(s, e, summary) ==
    [StartTime |-> format_time(s), EndTime |-> format_time(e),
     NumAttendees |-> 1, Attendees |-> <<"SELF">>, Summary |-> summary]

Protected(event) == event.Summary = OffHours

\* an overlap test with closed intervals: touching endpoints count
OverlapClosed(s1, e1, s2, e2) == s1 <= e2 /\ e1 >= s2

\* an overlap test that misses an event starting at or before the proposed start
OverlapStartsInside(s1, e1, s2, e2) == s1 < s2 /\ e1 > s2

\* the overlap test of has_conflict, on datetimes
Overlap(s1, e1, s2, e2) == s1 < e2 /\ e1 > s2

-----------------------------------------------------------------------------
(* Sequences *)

EmailSeq == <<"a", "b">>
Emails == {EmailSeq[i] : i \in 1..Len(EmailSeq)}

\* keys of a dict, in one fixed order
Keys(d) == SelectSeq(EmailSeq, LAMBDA e : e \in DOMAIN d)

RECURSIVE Flatten(_)
Flatten(ss) == IF ss = <<>> THEN <<>> ELSE Head(ss) \o Flatten(Tail(ss))

\* all_events.sort(key=lambda x: x["start"]): stable, ascending
RECURSIVE InsertByStart(_, _)
InsertByStart(x, s) ==
    IF s = <<>> THEN <<x>>
    ELSE IF x.start < Head(s).start THEN <<x>> \o s
    ELSE <<Head(s)>> \o InsertByStart(x, Tail(s))

RECURSIVE SortByStart(_)
SortByStart(s) ==
    IF s = <<>> THEN <<>>
    ELSE InsertByStart(s[Len(s)], SortByStart(SubSeq(s, 1, Len(s) - 1)))

Max(a, b) == IF a >= b THEN a ELSE b
Min(a, b) == IF a <= b THEN a ELSE b

-----------------------------------------------------------------------------
(* propose_time.py: conflict detection *)

ConflictRecord(email, event) ==
    [attendee |-> email, meeting |-> event, start |-> event.StartTime,
     end |-> event.EndTime, summary |-> event.Summary]

\* a conflict test without the "Off Hours" check
ConflictsProtectedToo(event, ps, pe) ==
    Overlap(ps, pe, parse_time(event.StartTime), parse_time(event.EndTime))

\* does one event of a calendar conflict with the proposed window
Conflicts(event, ps, pe) ==
    /\ ~Protected(event)
    /\ Overlap(ps, pe, parse_time(event.StartTime), parse_time(event.EndTime))

\* has_conflict: cals maps each email to its list of events
has_conflict(proposed_start, proposed_end, cals) ==
    LET ps == parse_time(proposed_start)
        pe == parse_time(proposed_end)
        of(email) ==
            LET hits == SelectSeq(cals[email], LAMBDA ev : Conflicts(ev, ps, pe))
            IN  [i \in 1..Len(hits) |-> ConflictRecord(email, hits[i])]
        ks == Keys(cals)
        found == Flatten([i \in 1..Len(ks) |-> of(ks[i])])
    IN  [flag |-> Len(found) > 0, meetings |-> found]

-----------------------------------------------------------------------------
(* propose_time.py: narrow search *)

NoSlot == [start |-> None, end |-> None]
Slot(s, duration) == [start |-> format_time(s), end |-> format_time(s + duration)]

\* busy times taken from the first calendar only
BusyTimesOfFirst(cals) ==
    LET ks == Keys(cals)
        busy == IF ks = <<>> THEN <<>>
                ELSE SelectSeq(cals[ks[1]], LAMBDA ev : ~Protected(ev))
    IN  [i \in 1..Len(busy) |->
            [start |-> parse_time(busy[i].StartTime),
             end |-> parse_time(busy[i].EndTime)]]

\* the busy times of all attendees: every event that is not "Off Hours"
BusyTimes(cals) ==
    LET of(email) ==
            LET busy == SelectSeq(cals[email], LAMBDA ev : ~Protected(ev))
            IN  [i \in 1..Len(busy) |->
                    [start |-> parse_time(busy[i].StartTime),
                     end |-> parse_time(busy[i].EndTime)]]
        ks == Keys(cals)
    IN  Flatten([i \in 1..Len(ks) |-> of(ks[i])])

\* a merge that takes the end of the absorbed interval
MergedEndOfCurrent(last, current) == current.end

\* the end of a merged interval that absorbs the current one
MergedEnd(last, current) == Max(last.end, current.end)

RECURSIVE MergeBusy(_, _)
MergeBusy(merged, rest) ==
    IF rest = <<>> THEN merged
    ELSE LET current == Head(rest)
             last == merged[Len(merged)]
         IN  IF current.start < last.end
             THEN MergeBusy([merged EXCEPT ![Len(merged)].end = MergedEnd(last, current)],
                            Tail(rest))
             ELSE MergeBusy(Append(merged, current), Tail(rest))

RECURSIVE GapScan(_, _, _, _, _)
GapScan(busy, last_busy_end, start_window, end_window, duration) ==
    IF busy = <<>>
    THEN IF end_window - Max(last_busy_end, start_window) >= duration
         THEN Slot(Max(last_busy_end, start_window), duration)
         ELSE NoSlot
    ELSE LET free_start == Max(last_busy_end, start_window)
             free_end == Min(Head(busy).start, end_window)
         IN  IF free_end - free_start >= duration
             THEN Slot(free_start, duration)
             ELSE GapScan(Tail(busy), Head(busy).end, start_window, end_window, duration)

\* steps 2 to 4 of find_first_free_slot_in_window, on the sorted busy times
ScanSorted(sorted, start_window, end_window, duration) ==
    GapScan(MergeBusy(<<sorted[1]>>, Tail(sorted)), start_window, start_window,
            end_window, duration)

\* a search that takes the start of the window whatever is busy
FirstFreeIgnoringBusy(busy_times, start_window, end_window, duration) ==
    IF start_window + duration <= end_window
    THEN Slot(start_window, duration)
    ELSE NoSlot

\* find_first_free_slot_in_window from its busy times on
FirstFree(busy_times, start_window, end_window, duration) ==
    IF busy_times = <<>>
    THEN IF start_window + duration <= end_window
         THEN Slot(start_window, duration)
         ELSE NoSlot
    ELSE ScanSorted(SortByStart(busy_times), start_window, end_window, duration)

\* find_first_free_slot_in_window; the duration is in ticks
find_first_free_slot_in_window(start_window_str, end_window_str, duration, cals) ==
    FirstFree(BusyTimes(cals), parse_time(start_window_str),
              parse_time(end_window_str), duration)

-----------------------------------------------------------------------------
(* propose_time.py: broad search *)

MinOf(S, default) == IF S = {} THEN default ELSE CHOOSE x \in S : \A y \in S : x <= y

\* dt.replace(hour=9, minute=0, second=0, microsecond=0)
AtNine(dt) == (dt \div TicksPerDay) * TicksPerDay + NineAM

\* all_events of find_free_slots: the busy times, sorted by start
all_events_of(cals) == SortByStart(BusyTimes(cals))

\* find_free_slots raises IndexError at all_events[0] when no event is busy
BroadRaises(cals) == BusyTimes(cals) = <<>>

\* a conflict test that misses an event already under way at the candidate
HitFromStart(all_events, current, duration) ==
    {i \in 1..Len(all_events) : /\ current <= all_events[i].start
                                /\ current + duration > all_events[i].start}

\* the events the candidate [current, current + duration) runs into
Hit(all_events, current, duration) ==
    {i \in 1..Len(all_events) : /\ current < all_events[i].end
                                /\ current + duration > all_events[i].start}

\* where the scan goes after a candidate that conflicts
next_event_start(all_events, current, duration, end) ==
    MinOf({all_events[i].end :
              i \in {j \in Hit(all_events, current, duration) :
                        all_events[j].end > current}} \cup {end}, end)

\* the start of the next event at or after the candidate
next_conflict(all_events, current, end) ==
    MinOf({all_events[i].start :
              i \in {j \in 1..Len(all_events) : all_events[j].start >= current}}
          \cup {end}, end)

\* one iteration of the while loop: the slots found so far
SweepFound(all_events, current, end, duration, found) ==
    IF /\ Hit(all_events, current, duration) = {}
       /\ next_conflict(all_events, current, end) >= current + duration
    THEN Append(found, Slot(current, duration))
    ELSE found

\* a scan that goes to the start of the earliest event in its way
SweepAdvanceToStart(all_events, current, end, duration) ==
    IF Hit(all_events, current, duration) # {}
    THEN MinOf({all_events[i].start : i \in Hit(all_events, current, duration)}
               \cup {end}, end)
    ELSE current + Stride

\* one iteration of the while loop: the next current_time
SweepAdvance(all_events, current, end, duration) ==
    IF Hit(all_events, current, duration) # {}
    THEN next_event_start(all_events, current, duration, end)
    ELSE current + Stride

\* a return without the slice
AllSlots(found) == found

\* free_slots[:5]
FirstSlots(found) == SubSeq(found, 1, Min(MaxSlots, Len(found)))

-----------------------------------------------------------------------------
(* Objects: an event list is an object on the heap, named by a reference;    *)
(* a dict of calendars maps each email to the reference of its list, or to   *)
(* NoneRef when the value is None.                                           *)

Ref(space, email) == <<space, email>>
NoneRef == <<"None", "">>

\* the lists a dict of calendars holds, by value (None entries left out)
Contents(d, h) == [e \in {k \in DOMAIN d : d[k] # NoneRef} |-> h[d[e]]]

HasAbsent(d) == \E e \in DOMAIN d : d[e] = NoneRef

\* a dict with no entry
EmptyDict == [e \in {} |-> NoneRef]

-----------------------------------------------------------------------------
(* main.py: the applier *)

NoDecision ==
    [proposed_final_start |-> None, proposed_final_end |-> None,
     conflicting_final_start |-> None, conflicting_final_end |-> None]

Decision(ps, pe, cs, ce) ==
    [proposed_final_start |-> ps, proposed_final_end |-> pe,
     conflicting_final_start |-> cs, conflicting_final_end |-> ce]

\* times_overlap: any exception (a text that does not parse, a naive datetime
\* compared with an aware one) is swallowed and read as "no overlap"
times_overlap(start1, end1, start2, end2) ==
    /\ \A x \in {start1, end1, start2, end2} : Kind(x) # "bad"
    /\ Kind(start1) = Kind(end2)
    /\ start1.clock < end2.clock
    /\ Kind(start2) = Kind(end1)
    /\ start2.clock < end1.clock

\* a copy that shares the lists with its source
ShallowCopy(d, h, space) == [dict |-> d, heap |-> h]

\* copy.deepcopy(attendee_events): every list is copied into a new object
deepcopy(d, h, space) ==
    LET lists == {e \in DOMAIN d : d[e] # NoneRef}
        fresh == {Ref(space, e) : e \in lists}
    IN  [dict |-> [e \in DOMAIN d |-> IF e \in lists THEN Ref(space, e) ELSE NoneRef],
         heap |-> [r \in DOMAIN h \cup fresh |->
                      IF r \in fresh THEN h[d[r[2]]] ELSE h[r]]]

\* the request's attendees, the sender put first when not listed
all_attendee_emails(input_request) ==
    IF \E i \in 1..Len(input_request.Attendees) :
           input_request.Attendees[i] = input_request.From
    THEN input_request.Attendees
    ELSE <<input_request.From>> \o input_request.Attendees

\* a step 1 without the "Off Hours" check
MovableAlways(event) == TRUE

\* step 1 skips an event whose summary is "Off Hours"
Movable(event) == ~Protected(event)

\* step 1: is the event one to take out and re-insert
ToRelocate(event, proposed_start, proposed_end) ==
    /\ times_overlap(event.StartTime, event.EndTime, proposed_start, proposed_end)
    /\ Movable(event)

\* a rescheduled version that keeps the summary only
RescheduledBare(event, rescheduled_start, rescheduled_end) ==
    [StartTime |-> rescheduled_start, EndTime |-> rescheduled_end,
     NumAttendees |-> 0, Attendees |-> <<>>, Summary |-> event.Summary]

\* the rescheduled version of an event
Rescheduled(event, rescheduled_start, rescheduled_end) ==
    [StartTime |-> rescheduled_start, EndTime |-> rescheduled_end,
     NumAttendees |-> event.NumAttendees, Attendees |-> event.Attendees,
     Summary |-> event.Summary]

\* a step 1 that stops at the first overlapping event
RelocateFirstOnly(events, ps, pe, rs, re) ==
    LET hits == {i \in 1..Len(events) : ToRelocate(events[i], ps, pe)}
        f == CHOOSE i \in hits : \A j \in hits : i <= j
    IN  IF hits = {} THEN events
        ELSE SubSeq(events, 1, f - 1) \o SubSeq(events, f + 1, Len(events))
                 \o <<Rescheduled(events[f], rs, re)>>

\* step 1 on one attendee's list: pop the overlapping events, append their
\* rescheduled versions
Relocate(events, ps, pe, rs, re) ==
    LET stay == SelectSeq(events, LAMBDA ev : ~ToRelocate(ev, ps, pe))
        go == SelectSeq(events, LAMBDA ev : ToRelocate(ev, ps, pe))
    IN  stay \o [i \in 1..Len(go) |-> Rescheduled(go[i], rs, re)]

new_meeting_event(input_request, ps, pe) ==
    LET all == all_attendee_emails(input_request)
    IN  [StartTime |-> ps, EndTime |-> pe, NumAttendees |-> Len(all),
         Attendees |-> all, Summary |-> input_request.Subject]

\* step 2: does this exact meeting already exist in the list
meeting_exists(events, ps, pe, subject) ==
    \E i \in 1..Len(events) :
        /\ events[i].StartTime = ps
        /\ events[i].EndTime = pe
        /\ events[i].Summary = subject

\* step 2 on one attendee's list
AddMeeting(events, input_request, ps, pe) ==
    IF meeting_exists(events, ps, pe, input_request.Subject)
    THEN events
    ELSE Append(events, new_meeting_event(input_request, ps, pe))

\* the applier after its deep copy: upd is the copied dict, h0 the heap
ApplyTo(upd, h0, dec, input_request, space) ==
    LET ps == dec.proposed_final_start
        pe == dec.proposed_final_end
        rs == dec.conflicting_final_start
        re == dec.conflicting_final_end
        relocating == Truthy(rs) /\ Truthy(re)
        all == all_attendee_emails(input_request)
        invited == {all[i] : i \in 1..Len(all)}
        after1(e) == IF relocating THEN Relocate(h0[upd[e]], ps, pe, rs, re)
                     ELSE h0[upd[e]]
        after2(e) ==
            LET base == IF e \in DOMAIN upd THEN after1(e) ELSE <<>>
            IN  IF e \in invited THEN AddMeeting(base, input_request, ps, pe) ELSE base
        dict2 == [e \in DOMAIN upd \cup invited |->
                     IF e \in DOMAIN upd THEN upd[e] ELSE Ref(space, e)]
        heap2 == [r \in DOMAIN h0 \cup {Ref(space, e) : e \in invited \ DOMAIN upd} |->
                     IF \E e \in DOMAIN upd \cup invited :
                            r = (IF e \in DOMAIN upd THEN upd[e] ELSE Ref(space, e))
                     THEN after2(CHOOSE e \in DOMAIN upd \cup invited :
                            r = (IF e \in DOMAIN upd THEN upd[e] ELSE Ref(space, e)))
                     ELSE h0[r]]
    IN  IF ~(Truthy(ps) /\ Truthy(pe))
        THEN [raised |-> FALSE, dict |-> upd, heap |-> h0]
        ELSE IF \/ relocating /\ HasAbsent(upd)
                \/ \E e \in invited \cap DOMAIN upd : upd[e] = NoneRef
        THEN [raised |-> TRUE, dict |-> upd, heap |-> h0]
        ELSE [raised |-> FALSE, dict |-> dict2, heap |-> heap2]

\* the applier on a copy of its input
ApplyOnCopy(copy, dec, input_request, space) ==
    ApplyTo(copy.dict, copy.heap, dec, input_request, space)

\* apply_rescheduling_to_attendee_events(attendee_events, decision, input_request)
\* run on heap h; the lists it allocates are named Ref(space, email).
\* Result: the dict it returns, the heap it leaves, and whether it raised
\* (iterating a None calendar is a TypeError).
apply_rescheduling_to_attendee_events(d, h, dec, input_request, space) ==
    ApplyOnCopy(deepcopy(d, h, space), dec, input_request, space)

-----------------------------------------------------------------------------
(* main.py: the response *)

\* filter_off_hours_events
filter_off_hours_events(events) == SelectSeq(events, LAMBDA ev : ev.Summary # OffHours)

\* attendee_events_list.sort(key=lambda x: x["StartTime"]): stable, by str order
RECURSIVE InsertByStartTime(_, _)
InsertByStartTime(x, s) ==
    IF s = <<>> THEN <<x>>
    ELSE IF StrLess(x.StartTime, Head(s).StartTime) THEN <<x>> \o s
    ELSE <<Head(s)>> \o InsertByStartTime(x, Tail(s))

RECURSIVE SortByStartTime(_)
SortByStartTime(s) ==
    IF s = <<>> THEN <<>>
    ELSE InsertByStartTime(s[Len(s)], SortByStartTime(SubSeq(s, 1, Len(s) - 1)))

\* the response list of one attendee: filtered, then sorted
FinalList(events) == SortByStartTime(filter_off_hours_events(events))

\* process_scheduler_results after the applier returned ap.
\* The filter puts a new list in the updated dict for every email; the lists
\* of the response are those lists, sorted in place.
ShapeResponse(ap, input_request) ==
    LET upd == ap.dict
        all == all_attendee_emails(input_request)
        invited == {all[i] : i \in 1..Len(all)}
        filtered == {Ref("out", e) : e \in DOMAIN upd}
    IN  IF ap.raised \/ HasAbsent(upd)
        THEN [raised |-> "TypeError", dict |-> upd, heap |-> ap.heap, Attendees |-> <<>>]
        ELSE [raised |-> "",
              dict |-> [e \in DOMAIN upd |-> Ref("out", e)],
              heap |-> [r \in DOMAIN ap.heap \cup filtered |->
                          IF r \in filtered
                          THEN IF r[2] \in invited
                               THEN FinalList(ap.heap[upd[r[2]]])
                               ELSE filter_off_hours_events(ap.heap[upd[r[2]]])
                          ELSE ap.heap[r]],
              Attendees |->
                  [i \in 1..Len(all) |->
                      [email |-> all[i],
                       events |-> IF all[i] \in DOMAIN upd
                                  THEN FinalList(ap.heap[upd[all[i]]])
                                  ELSE <<>>]]]

\* process_scheduler_results(input_request, results) run on heap h
process_scheduler_results(input_request, d, h, dec) ==
    ShapeResponse(apply_rescheduling_to_attendee_events(d, h, dec, input_request, "upd"),
                  input_request)

-----------------------------------------------------------------------------
(* get_attendee_events.py: the calendar query of one retrieval *)

\* int(end_day_plus_one[2]) + 0
DayIncrement == 0

\* time_str.split("T")[0]: the date of a timestamp text, as a day number
DayOf(time_str) == time_str.clock \div TicksPerDay

\* f"{start_day}T00:00:00+05:30"
start_day_time_stamp(proposed) ==
    format_time(DayOf(proposed.start_time) * TicksPerDay)

\* f"{end_day_plus_one}T23:59:59+05:30": the last tick of that day
end_day_plus_one_time_stamp(proposed) ==
    format_time((DayOf(proposed.end_time) + DayIncrement) * TicksPerDay
                    + (TicksPerDay - 1))

\* the calendar service: the events of a calendar that meet [from, to]
retrive_calendar_events(events, from, to) ==
    SelectSeq(events, LAMBDA ev : /\ ev.StartTime.clock <= to.clock
                                  /\ ev.EndTime.clock >= from.clock)

\* get_attendee_events_2_days(proposed_time, user_email), the user's calendar
\* being events
get_attendee_events_2_days(proposed, events) ==
    retrive_calendar_events(events, start_day_time_stamp(proposed),
                            end_day_plus_one_time_stamp(proposed))

-----------------------------------------------------------------------------
(* The inputs *)

Sender == "a"

\* the events a calendar may hold, in ascending order of start
Universe ==
    << Event(36, 40, "Standup"),                    \* 09:00-10:00
       Event(36, 44, OffHours),                     \* 09:00-11:00, protected
       Event(36, NineAM + HorizonDays * TicksPerDay, "Conference"),
       Event(38, 42, "Standup"),                    \* 09:30-10:30
       Event(42, 46, "Review") >>                   \* 10:30-11:30

\* the calendars that hold at most MaxEvents of the events U[i], i in I,
\* ascending by start
Calendars(U, I) ==
    LET picks == {S \in SUBSET I : Cardinality(S) <= MaxEvents}
        asSeq(S) == SelectSeq(U, LAMBDA ev : \E i \in S : U[i] = ev)
    IN  {asSeq(S) : S \in picks}

\* the attendees a request lists: nobody, one attendee, the sender listed
\* again, the same attendee twice
AttendeeLists == { <<>>, <<"b">>, <<"a", "b">>, <<"b", "b">> }

Subjects == {"Sync", "Standup"}

Requests ==
    {[From |-> Sender, Attendees |-> l, Subject |-> sub] :
        l \in AttendeeLists, sub \in Subjects}

\* get_all_attendee_events_2_days_parallel: all_attendees
all_attendees(input_request) == <<input_request.From>> \o input_request.Attendees

Invited(input_request) ==
    {all_attendees(input_request)[i] : i \in 1..Len(all_attendees(input_request))}

TimeWindow(s, e, d) ==
    [start_time |-> format_time(s), end_time |-> format_time(e), duration |-> d]

NoWindow == [start_time |-> None, end_time |-> None, duration |-> 0]

\* the windows the extractor may answer: start < end, duration in ticks
Windows ==
    { TimeWindow(36, 38, 2),        \* 09:00-09:30, 30 minutes
      TimeWindow(36, 48, 2) }       \* 09:00-12:00, 30 minutes

EmptyHeap == [r \in {} |-> <<>>]

\* the locals of one pipeline run, before the run
RunReset ==
    /\ proposed_time' = NoWindow
    /\ futures' = <<>>
    /\ attendee_events' = EmptyDict
    /\ heap' = EmptyHeap
    /\ has_conflicts' = FALSE
    /\ conflicting_meetings' = <<>>
    /\ first_available' = NoSlot
    /\ free_slots' = <<>>
    /\ current_time' = 0
    /\ end_time' = 0
    /\ decision' = NoDecision
    /\ updated_events' = EmptyDict
    /\ stages' = <<>>
    /\ tier' = 0
    /\ error' = ""

Init ==
    /\ request \in Requests
    /\ window \in Windows
    /\ calendar \in [Invited(request) -> Calendars(Universe, {1, 2, 3, 5})]
    /\ pc = "extract"
    /\ retry_count = 0
    /\ proposed_time = NoWindow
    /\ futures = <<>>
    /\ attendee_events = EmptyDict
    /\ heap = EmptyHeap
    /\ has_conflicts = FALSE
    /\ conflicting_meetings = <<>>
    /\ first_available = NoSlot
    /\ free_slots = <<>>
    /\ current_time = 0
    /\ end_time = 0
    /\ decision = NoDecision
    /\ updated_events = EmptyDict
    /\ reapplied = EmptyDict
    /\ response = <<>>
    /\ stages = <<>>
    /\ tier = 0
    /\ error = ""

-----------------------------------------------------------------------------
(* The pipeline: intelligent_meeting_scheduler under schedule_meeting *)

\* an exception leaves the run
Raise(what) ==
    /\ error' = what
    /\ pc' = "except"

\* extract_time_window answers
ExtractTimeWindow ==
    /\ pc = "extract"
    /\ proposed_time' = window
    /\ pc' = "submit"
    /\ UNCHANGED <<request, window, calendar, retry_count, futures, attendee_events,
                   heap, has_conflicts, conflicting_meetings, first_available,
                   free_slots, current_time, end_time, decision, updated_events, reapplied, response,
                   stages, tier, error>>

\* extract_time_window fails: the whole pipeline run is aborted
ExtractFails ==
    /\ pc = "extract"
    /\ Raise("ExtractorError")
    /\ UNCHANGED <<request, window, calendar, retry_count, proposed_time, futures,
                   attendee_events, heap, has_conflicts, conflicting_meetings,
                   first_available, free_slots, current_time, end_time, decision, updated_events, reapplied,
                   response, stages, tier>>

\* the fetcher submits one retrieval per entry of all_attendees
SubmitRetrievals ==
    /\ pc = "submit"
    /\ futures' = [i \in 1..Len(all_attendees(request)) |-> "pending"]
    /\ pc' = "fetch"
    /\ UNCHANGED <<request, window, calendar, retry_count, proposed_time,
                   attendee_events, heap, has_conflicts, conflicting_meetings,
                   first_available, free_slots, current_time, end_time, decision, updated_events, reapplied,
                   response, stages, tier, error>>

\* the value the collector stores for a completed retrieval
Collected(ok, email) == IF ok THEN Ref("snap", email) ELSE NoneRef

\* one retrieval completes, with its events or with an exception, and the
\* collector stores its outcome under the retrieval's email
CompleteRetrieval ==
    /\ pc = "fetch"
    /\ \E i \in 1..Len(futures), ok \in BOOLEAN :
        LET email == all_attendees(request)[i]
        IN  /\ futures[i] = "pending"
            /\ futures' = [futures EXCEPT ![i] = IF ok THEN "returned" ELSE "raised"]
            /\ attendee_events' =
                   [e \in DOMAIN attendee_events \cup {email} |->
                       IF e = email THEN Collected(ok, email) ELSE attendee_events[e]]
            /\ heap' = IF ok
                       THEN [r \in DOMAIN heap \cup {Ref("snap", email)} |->
                               IF r = Ref("snap", email)
                               THEN get_attendee_events_2_days(proposed_time,
                                                               calendar[email])
                               ELSE heap[r]]
                       ELSE heap
    /\ UNCHANGED <<request, window, calendar, pc, retry_count, proposed_time,
                   has_conflicts, conflicting_meetings, first_available, free_slots, current_time, end_time,
                   decision, updated_events, reapplied, response, stages, tier, error>>

AllCollected == futures # <<>> /\ \A i \in 1..Len(futures) : futures[i] # "pending"

\* a return statement of intelligent_meeting_scheduler
Return(t, dec) ==
    /\ tier' = t
    /\ decision' = dec
    /\ pc' = "process"

\* a pipeline that goes on to the broad search whatever has_conflict found
AfterDetectToBroad(r) ==
    /\ has_conflicts' = r.flag
    /\ conflicting_meetings' = r.meetings
    /\ error' = error
    /\ pc' = "broad"
    /\ UNCHANGED <<tier, decision>>

\* a pipeline without the early return of case 1
AfterDetectNoReturn(r) ==
    /\ has_conflicts' = r.flag
    /\ conflicting_meetings' = r.meetings
    /\ error' = error
    /\ pc' = "narrow"
    /\ UNCHANGED <<tier, decision>>

\* the pipeline after has_conflict returned r
AfterDetect(r) ==
    /\ has_conflicts' = r.flag
    /\ conflicting_meetings' = r.meetings
    /\ error' = error
    /\ IF ~r.flag
       THEN Return(1, Decision(proposed_time.start_time, proposed_time.end_time,
                               None, None))
       ELSE /\ pc' = "narrow"
            /\ UNCHANGED <<tier, decision>>

\* has_conflict on the snapshot, and the no-conflict return
DetectConflicts ==
    /\ pc = "fetch"
    /\ AllCollected
    /\ stages' = Append(stages, "detect")
    /\ IF HasAbsent(attendee_events)
       THEN /\ Raise("TypeError")
            /\ UNCHANGED <<has_conflicts, conflicting_meetings, tier, decision>>
       ELSE AfterDetect(has_conflict(proposed_time.start_time, proposed_time.end_time,
                                     Contents(attendee_events, heap)))
    /\ UNCHANGED <<request, window, calendar, retry_count, proposed_time, futures,
                   attendee_events, heap, first_available, free_slots, current_time,
                   end_time, updated_events, reapplied, response>>

\* a case 2 that returns the proposed window instead of the slot found
AfterNarrowReturnsWindow(r) ==
    /\ first_available' = r
    /\ IF Truthy(r.start)
       THEN Return(2, Decision(proposed_time.start_time, proposed_time.end_time,
                               None, None))
       ELSE /\ pc' = "broad"
            /\ UNCHANGED <<tier, decision>>

\* a pipeline that goes on to the broad search whatever the narrow search found
AfterNarrowNoReturn(r) ==
    /\ first_available' = r
    /\ pc' = "broad"
    /\ UNCHANGED <<tier, decision>>

\* the pipeline after find_first_free_slot_in_window returned r
AfterNarrow(r) ==
    /\ first_available' = r
    /\ IF Truthy(r.start)
       THEN Return(2, Decision(r.start, r.end, None, None))
       ELSE /\ pc' = "broad"
            /\ UNCHANGED <<tier, decision>>

\* find_first_free_slot_in_window, and the return when it finds a slot
NarrowSearch ==
    /\ pc = "narrow"
    /\ stages' = Append(stages, "narrow")
    /\ AfterNarrow(find_first_free_slot_in_window(
                       proposed_time.start_time, proposed_time.end_time,
                       proposed_time.duration, Contents(attendee_events, heap)))
    /\ UNCHANGED <<request, window, calendar, retry_count, proposed_time, futures,
                   attendee_events, heap, has_conflicts, conflicting_meetings,
                   free_slots, current_time, end_time, updated_events, reapplied,
                   response, error>>

\* the scan starts at 9 AM of the day of the earliest event and ends 2 days later
SweepFrom(earliest) ==
    /\ current_time' = AtNine(earliest)
    /\ end_time' = AtNine(earliest) + HorizonDays * TicksPerDay

\* find_free_slots up to its while loop
BroadSearch ==
    /\ pc = "broad"
    /\ stages' = Append(stages, "broad")
    /\ IF BroadRaises(Contents(attendee_events, heap))
       THEN /\ Raise("IndexError")
            /\ UNCHANGED <<current_time, end_time>>
       ELSE /\ SweepFrom(all_events_of(Contents(attendee_events, heap))[1].start)
            /\ pc' = "sweep"
            /\ error' = error
    /\ UNCHANGED <<request, window, calendar, retry_count, proposed_time, futures,
                   attendee_events, heap, has_conflicts, conflicting_meetings,
                   first_available, free_slots, decision, updated_events, reapplied,
                   response, tier>>

\* the effect of one iteration of the while loop
SweepOver(all_events) ==
    /\ free_slots' = SweepFound(all_events, current_time, end_time,
                                proposed_time.duration, free_slots)
    /\ current_time' = SweepAdvance(all_events, current_time, end_time,
                                    proposed_time.duration)

\* one iteration of the while loop of find_free_slots
SweepStep ==
    /\ pc = "sweep"
    /\ current_time < end_time
    /\ SweepOver(all_events_of(Contents(attendee_events, heap)))
    /\ UNCHANGED <<request, window, calendar, pc, retry_count, proposed_time, futures,
                   attendee_events, heap, has_conflicts, conflicting_meetings,
                   first_available, end_time, decision, updated_events, reapplied,
                   response, stages, tier, error>>

\* a pipeline that raises when the broad search found nothing
BroadReturnRaises ==
    /\ pc = "sweep"
    /\ ~(current_time < end_time)
    /\ free_slots' = FirstSlots(free_slots)
    /\ IF FirstSlots(free_slots) = <<>>
       THEN Raise("NoAlternative") /\ UNCHANGED <<tier, decision>>
       ELSE /\ pc' = "oracle"
            /\ error' = error
            /\ UNCHANGED <<tier, decision>>
    /\ UNCHANGED <<request, window, calendar, retry_count, proposed_time, futures,
                   attendee_events, heap, has_conflicts, conflicting_meetings,
                   first_available, current_time, end_time, updated_events, reapplied,
                   response, stages>>

\* find_free_slots returns, and the return of the pipeline when it found nothing
BroadReturn ==
    /\ pc = "sweep"
    /\ ~(current_time < end_time)
    /\ free_slots' = FirstSlots(free_slots)
    /\ IF FirstSlots(free_slots) = <<>>
       THEN Return(4, Decision(proposed_time.start_time, proposed_time.end_time,
                               None, None))
       ELSE /\ pc' = "oracle"
            /\ UNCHANGED <<tier, decision>>
    /\ UNCHANGED <<request, window, calendar, retry_count, proposed_time, futures,
                   attendee_events, heap, has_conflicts, conflicting_meetings,
                   first_available, current_time, end_time, updated_events, reapplied,
                   response, stages, error>>

\* the decisions the oracle may answer with: the proposed meeting at the window
\* or at a free slot, the conflicting meeting left alone or moved to a free
\* slot; or nulls
OracleAnswers ==
    LET win == [start |-> proposed_time.start_time, end |-> proposed_time.end_time]
        offered == {free_slots[i] : i \in 1..Min(2, Len(free_slots))}
    IN  {Decision(p.start, p.end, c.start, c.end) :
            p \in {win, free_slots[1]}, c \in {NoSlot} \cup offered}
        \cup {NoDecision}

\* schedule_with_llm answers, and the last return
OracleAnswer ==
    /\ pc = "oracle"
    /\ stages' = Append(stages, "oracle")
    /\ \E dec \in OracleAnswers : Return(3, dec)
    /\ UNCHANGED <<request, window, calendar, retry_count, proposed_time, futures,
                   attendee_events, heap, has_conflicts, conflicting_meetings,
                   first_available, free_slots, current_time, end_time, updated_events, reapplied, response,
                   error>>

\* what schedule_with_llm raises: the call times out, or json.loads rejects
\* the text of the answer
OracleFaults == {"APITimeoutError", "JSONDecodeError"}

\* schedule_with_llm raises; nothing in the pipeline catches it
OracleFails ==
    /\ pc = "oracle"
    /\ stages' = Append(stages, "oracle")
    /\ \E fault \in OracleFaults : Raise(fault)
    /\ UNCHANGED <<request, window, calendar, retry_count, proposed_time, futures,
                   attendee_events, heap, has_conflicts, conflicting_meetings,
                   first_available, free_slots, current_time, end_time, decision, updated_events, reapplied,
                   response, tier>>

\* the handler after process_scheduler_results returned r
Respond(r) ==
    /\ heap' = r.heap
    /\ updated_events' = r.dict
    /\ IF r.raised # ""
       THEN Raise(r.raised) /\ UNCHANGED response
       ELSE IF ~(Truthy(decision.proposed_final_start)
                 /\ Truthy(decision.proposed_final_end))
       THEN Raise("ValidationError") /\ UNCHANGED response
       ELSE /\ response' = r.Attendees
            /\ pc' = "done"
            /\ error' = error

\* process_scheduler_results, then MeetingResponse(**response_data): EventStart
\* and EventEnd must be str
ProcessSchedulerResults ==
    /\ pc = "process"
    /\ Respond(process_scheduler_results(request, attendee_events, heap, decision))
    /\ UNCHANGED <<request, window, calendar, retry_count, proposed_time, futures,
                   attendee_events, has_conflicts, conflicting_meetings,
                   first_available, free_slots, current_time, end_time, decision, reapplied, stages, tier>>

\* a handler that gives up one attempt early
RetryOffByOne ==
    /\ pc = "except"
    /\ retry_count' = retry_count + 1
    /\ IF retry_count + 1 >= max_retries
       THEN /\ pc' = "failed"
            /\ UNCHANGED <<proposed_time, futures, attendee_events, heap, has_conflicts,
                           conflicting_meetings, first_available, free_slots, current_time, end_time, decision,
                           updated_events, stages, tier, error>>
       ELSE /\ pc' = "extract"
            /\ RunReset
    /\ UNCHANGED <<request, window, calendar, reapplied, response>>

\* schedule_meeting: the except clause and the loop condition
Retry ==
    /\ pc = "except"
    /\ retry_count' = retry_count + 1
    /\ IF retry_count + 1 > max_retries
       THEN /\ pc' = "failed"
            /\ UNCHANGED <<proposed_time, futures, attendee_events, heap, has_conflicts,
                           conflicting_meetings, first_available, free_slots, current_time, end_time, decision,
                           updated_events, stages, tier, error>>
       ELSE /\ pc' = "extract"
            /\ RunReset
    /\ UNCHANGED <<request, window, calendar, reapplied, response>>

Next ==
    \/ ExtractTimeWindow
    \/ ExtractFails
    \/ SubmitRetrievals
    \/ CompleteRetrieval
    \/ DetectConflicts
    \/ NarrowSearch
    \/ BroadSearch
    \/ SweepStep
    \/ BroadReturn
    \/ OracleAnswer
    \/ OracleFails
    \/ ProcessSchedulerResults
    \/ Retry

Spec == Init /\ [][Next]_vars

-----------------------------------------------------------------------------
(* The applier as a function of its inputs *)

\* decisions an applier may be given: the proposed meeting at 09:00-09:30 or
\* 09:30-10:30, no relocation or a relocation to 11:30-12:00 or to 09:30-10:30
Decisions ==
    {Decision(p.start, p.end, c.start, c.end) :
        p \in {Slot(36, 2), Slot(38, 4)},
        c \in {NoSlot, Slot(46, 2), Slot(38, 4)}}
    \cup {NoDecision}

\* snapshots over the emails K: each calendar a list of events
Snapshots(K, cals) == [K -> cals]

InitApply ==
    /\ request \in Requests
    /\ window = TimeWindow(36, 38, 2)
    /\ calendar \in UNION {Snapshots(K, Calendars(Universe, {1, 2, 4, 5})) :
                             K \in SUBSET Invited(request)}
    /\ pc \in {"apply", "process"}
    /\ retry_count = 0
    /\ proposed_time = window
    /\ futures = <<>>
    /\ attendee_events = [e \in DOMAIN calendar |-> Ref("snap", e)]
    /\ heap = [r \in {Ref("snap", e) : e \in DOMAIN calendar} |-> calendar[r[2]]]
    /\ has_conflicts = FALSE
    /\ conflicting_meetings = <<>>
    /\ first_available = NoSlot
    /\ free_slots = <<>>
    /\ current_time = 0
    /\ end_time = 0
    /\ decision \in Decisions
    /\ updated_events = EmptyDict
    /\ reapplied = EmptyDict
    /\ response = <<>>
    /\ stages = <<>>
    /\ tier = 0
    /\ error = ""

\* the applier returned r
Applied(r, where) ==
    /\ heap' = r.heap
    /\ IF r.raised THEN Raise("TypeError") ELSE pc' = where /\ error' = error

\* apply_rescheduling_to_attendee_events on the snapshot
ApplyRescheduling ==
    /\ pc = "apply"
    /\ \E r \in {apply_rescheduling_to_attendee_events(
                     attendee_events, heap, decision, request, "upd")} :
          Applied(r, "applied") /\ updated_events' = r.dict
    /\ UNCHANGED <<request, window, calendar, retry_count, proposed_time, futures,
                   attendee_events, has_conflicts, conflicting_meetings,
                   first_available, free_slots, current_time, end_time, decision,
                   reapplied, response, stages, tier>>

\* apply_rescheduling_to_attendee_events on its own result, same decision
ApplyAgain ==
    /\ pc = "applied"
    /\ \E r \in {apply_rescheduling_to_attendee_events(
                     updated_events, heap, decision, request, "again")} :
          Applied(r, "reapplied") /\ reapplied' = r.dict
    /\ UNCHANGED <<request, window, calendar, retry_count, proposed_time, futures,
                   attendee_events, has_conflicts, conflicting_meetings,
                   first_available, free_slots, current_time, end_time, decision,
                   updated_events, response, stages, tier>>

NextApply ==
    \/ ApplyRescheduling
    \/ ApplyAgain
    \/ ProcessSchedulerResults

SpecApply == InitApply /\ [][NextApply]_vars

-----------------------------------------------------------------------------
(* The searches as functions of their inputs *)

SearchWindows ==
    { TimeWindow(36, 38, 2),        \* 09:00-09:30, 30 minutes
      TimeWindow(36, 48, 2),        \* 09:00-12:00, 30 minutes
      TimeWindow(36, 48, 4),        \* 09:00-12:00, 60 minutes
      TimeWindow(38, 44, 3),        \* 09:30-11:00, 45 minutes
      TimeWindow(36, 38, 4),        \* 09:00-09:30, 60 minutes
      TimeWindow(36, 48, 0) }       \* 09:00-12:00, 0 minutes

InitSearch ==
    /\ request = [From |-> Sender, Attendees |-> <<"b">>, Subject |-> "Sync"]
    /\ window \in SearchWindows
    /\ calendar \in Snapshots(Emails, Calendars(Universe, 1..Len(Universe)))
    /\ pc \in {"narrow", "broad"}
    /\ retry_count = 0
    /\ proposed_time = window
    /\ futures = <<>>
    /\ attendee_events = [e \in DOMAIN calendar |-> Ref("snap", e)]
    /\ heap = [r \in {Ref("snap", e) : e \in DOMAIN calendar} |-> calendar[r[2]]]
    /\ has_conflicts = FALSE
    /\ conflicting_meetings = <<>>
    /\ first_available = NoSlot
    /\ free_slots = <<>>
    /\ current_time = 0
    /\ end_time = 0
    /\ decision = NoDecision
    /\ updated_events = EmptyDict
    /\ reapplied = EmptyDict
    /\ response = <<>>
    /\ stages = <<>>
    /\ tier = 0
    /\ error = ""

NextSearch ==
    \/ NarrowSearch
    \/ BroadSearch
    \/ SweepStep
    \/ BroadReturn

SpecSearch == InitSearch /\ [][NextSearch]_vars

-----------------------------------------------------------------------------
(* Vocabulary of the properties *)

StageOrder == <<"detect", "narrow", "broad", "oracle">>

IsPrefix(s, t) == Len(s) <= Len(t) /\ \A i \in 1..Len(s) : s[i] = t[i]

\* the current pipeline run has executed the stage
Ran(stage) == \E i \in 1..Len(stages) : stages[i] = stage

Range(s) == {s[i] : i \in 1..Len(s)}

\* two half-open intervals of ticks share a tick
Intersects(s1, e1, s2, e2) == \E t \in s1..(e1 - 1) : s2 <= t /\ t < e2

\* the event occupies a tick of [s, e)
Occupies(ev, s, e) == Intersects(s, e, ev.StartTime.clock, ev.EndTime.clock)

\* the event was in the attendee's calendar before the request
PreExisting(email, ev) == email \in DOMAIN calendar /\ ev \in Range(calendar[email])

\* the event is the meeting of the request, wherever it is placed
IsNewMeeting(ev) ==
    /\ ev.Summary = request.Subject
    /\ ev.Attendees = all_attendee_emails(request)
    /\ ev.NumAttendees = Len(all_attendee_emails(request))

Instances(events) == Cardinality({i \in 1..Len(events) : IsNewMeeting(events[i])})

ProposedSet == Truthy(decision.proposed_final_start) /\ Truthy(decision.proposed_final_end)

RelocationSet ==
    Truthy(decision.conflicting_final_start) /\ Truthy(decision.conflicting_final_end)

-----------------------------------------------------------------------------
(* C1 *)

\* C1: in every pipeline run the stages run in the order conflict detection,
\* narrow search, broad search, oracle call, each at most once; the oracle is
\* called only when conflicts were detected, the narrow search returned no
\* slot and the broad search returned at least one candidate; a run that
\* ends in tier 1, 2 or 4 has not called the oracle.
C1_StagesInOrder ==
    /\ IsPrefix(stages, StageOrder)
    /\ Ran("oracle") =>
          /\ has_conflicts
          /\ first_available = NoSlot
          /\ Len(free_slots) >= 1
    /\ tier \in {1, 2, 4} => ~Ran("oracle")

\* a run that went through all four stages and answered
C1_Witness == pc = "done" /\ tier = 3 /\ stages = StageOrder

-----------------------------------------------------------------------------
(* C2 *)

\* the attendee's returned calendar holds a pre-existing event that is not
\* protected and occupies a tick of the decision's final window
DoubleBooked(att) ==
    \E ev \in Range(att.events) :
        /\ PreExisting(att.email, ev)
        /\ ~Protected(ev)
        /\ Occupies(ev, decision.proposed_final_start.clock,
                    decision.proposed_final_end.clock)

\* C2: when the pipeline ends in tier 1 or tier 2 and the decision is applied,
\* no attendee's returned calendar holds a pre-existing non-protected event
\* that overlaps the inserted meeting.
C2_NoSilentDoubleBooking ==
    (pc = "done" /\ tier \in {1, 2}) =>
        \A i \in 1..Len(response) : ~DoubleBooked(response[i])

\* a tier 2 answer: the meeting was put next to an event the attendee keeps
C2_Witness ==
    /\ pc = "done"
    /\ tier = 2
    /\ \E i \in 1..Len(response) :
          /\ \E ev \in Range(response[i].events) : IsNewMeeting(ev)
          /\ \E ev \in Range(response[i].events) :
                PreExisting(response[i].email, ev) /\ ~Protected(ev)

-----------------------------------------------------------------------------
(* C3 *)

\* C3: when the oracle call times out or its answer does not parse, the
\* orchestrator does not raise: it returns the tier 4 decision, the proposed
\* window verbatim with no relocation.
C3_OracleFallback ==
    error \in OracleFaults =>
        /\ pc \notin {"except", "failed"}
        /\ tier = 4
        /\ decision = Decision(proposed_time.start_time, proposed_time.end_time,
                               None, None)

-----------------------------------------------------------------------------
(* C4 *)

\* C4: a failed retrieval leaves an absent-result marker for its attendee, and
\* the stages after the fetch treat that calendar as empty: with a marker in
\* the snapshot, conflict detection runs without raising.
C4_AbsentAsEmpty ==
    (HasAbsent(attendee_events) /\ Ran("detect")) => error = ""

-----------------------------------------------------------------------------
(* C5 *)

ProtectedOf(events) == SelectSeq(events, Protected)

\* C5: the applier neither removes nor relocates a protected event: the
\* protected events of every calendar it returns are those of its input, in
\* the same order, also when it relocates other events of the same attendee.
C5_ProtectedStay ==
    /\ pc = "applied" =>
          \A e \in DOMAIN calendar :
              ProtectedOf(heap[updated_events[e]]) = ProtectedOf(calendar[e])
    /\ pc = "reapplied" =>
          \A e \in DOMAIN updated_events :
              ProtectedOf(heap[reapplied[e]]) = ProtectedOf(heap[updated_events[e]])

\* a protected event and another event of the same attendee both overlap the
\* final window, and the other one was relocated
C5_Witness ==
    /\ pc = "applied"
    /\ RelocationSet
    /\ \E e \in DOMAIN calendar : \E prot, other \in Range(calendar[e]) :
          /\ Protected(prot)
          /\ ~Protected(other)
          /\ Occupies(prot, decision.proposed_final_start.clock,
                      decision.proposed_final_end.clock)
          /\ Occupies(other, decision.proposed_final_start.clock,
                      decision.proposed_final_end.clock)
          /\ other \notin Range(heap[updated_events[e]])
          /\ prot \in Range(heap[updated_events[e]])

-----------------------------------------------------------------------------
(* C6 *)

\* C6: the applier run on its own result with the same decision leaves every
\* attendee with exactly one instance of the new meeting.
C6_OneInstanceAfterTwice ==
    (pc = "reapplied" /\ ProposedSet) =>
        \A e \in DOMAIN reapplied : Instances(heap[reapplied[e]]) = 1

-----------------------------------------------------------------------------
(* C7 *)

SameKey(x, y) ==
    x.StartTime = y.StartTime /\ x.EndTime = y.EndTime /\ x.Summary = y.Summary

NoDuplicates(events) ==
    \A i, j \in 1..Len(events) : i # j => ~SameKey(events[i], events[j])

\* C7: after the applier has run, no attendee calendar holds two events with
\* identical (start, end, summary).
C7_NoDuplicateEvents ==
    pc = "applied" =>
        \A e \in DOMAIN updated_events : NoDuplicates(heap[updated_events[e]])

-----------------------------------------------------------------------------
(* C8 *)

\* the pre-existing meetings that are no longer where they were
Moved ==
    {ev \in UNION {Range(calendar[e]) : e \in DOMAIN calendar} :
        \E e \in DOMAIN calendar :
            ev \in Range(calendar[e]) /\ ev \notin Range(heap[updated_events[e]])}

\* C8: with a decision that carries a relocation slot the applier moves one
\* existing meeting: no second distinct pre-existing meeting is moved.
C8_OneMeetingMoved ==
    (pc = "applied" /\ ProposedSet /\ RelocationSet) => Cardinality(Moved) <= 1

-----------------------------------------------------------------------------
(* C9 *)

\* C9: the applier never mutates the mapping it is given: across the applier,
\* and across the filtering and sorting of the response, the snapshot, its
\* lists and their events keep their values; the applier run on its own
\* result leaves that result as it was.
C9_SnapshotUntouched ==
    [][/\ attendee_events' = attendee_events
       /\ Contents(attendee_events, heap') = Contents(attendee_events, heap)
       /\ pc = "applied" =>
             Contents(updated_events, heap') = Contents(updated_events, heap)]_vars

\* a response whose lists differ from the snapshot's: an event was relocated
\* and a protected one filtered out
C9_Witness ==
    /\ pc = "done"
    /\ RelocationSet
    /\ \E e \in DOMAIN calendar :
          /\ \E ev \in Range(calendar[e]) : Protected(ev)
          /\ \E ev \in Range(calendar[e]) : ev \notin Range(heap[updated_events[e]])
          /\ Contents(attendee_events, heap)[e] = calendar[e]

-----------------------------------------------------------------------------
(* C10 *)

\* [s, s + d) is inside the window and no attendee has a non-protected event in it
ValidStart(s, d) ==
    /\ window.start_time.clock <= s
    /\ s + d <= window.end_time.clock
    /\ \A e \in DOMAIN calendar : \A ev \in Range(calendar[e]) :
          Protected(ev) \/ ~Occupies(ev, s, s + d)

ValidStarts ==
    {s \in window.start_time.clock..window.end_time.clock :
        ValidStart(s, window.duration)}

\* C10: the narrow search returns the earliest slot of the asked duration that
\* lies inside the window and overlaps no non-protected event of any
\* attendee, and (None, None) exactly when there is no such slot.
C10_EarliestValidSlot ==
    Ran("narrow") =>
        IF ValidStarts = {}
        THEN first_available = NoSlot
        ELSE /\ first_available.start.clock \in ValidStarts
             /\ \A s \in ValidStarts : first_available.start.clock <= s
             /\ first_available = Slot(first_available.start.clock, window.duration)

\* the slot found lies after a busy interval, in a gap between two events
C10_Witness ==
    /\ Ran("narrow")
    /\ Truthy(first_available.start)
    /\ window.start_time.clock < first_available.start.clock
    /\ \E e \in DOMAIN calendar : \E ev \in Range(calendar[e]) :
          ev.StartTime.clock = first_available.end.clock

-----------------------------------------------------------------------------
(* C11 *)

\* the event is one conflict detection has to report for the proposed window
ShouldConflict(ev) ==
    /\ ~Protected(ev)
    /\ Occupies(ev, proposed_time.start_time.clock, proposed_time.end_time.clock)

\* how many records the list holds for the attendee and the event
RecordsOf(e, ev) ==
    Cardinality({i \in 1..Len(conflicting_meetings) :
                    /\ conflicting_meetings[i].attendee = e
                    /\ conflicting_meetings[i].meeting = ev})

\* C11: conflict detection answers true exactly when some attendee has a
\* non-protected event that overlaps the proposed window, and its list holds
\* exactly one record per (attendee, overlapping non-protected event): none
\* for a protected event, none for an event that does not overlap.
C11_DetectExact ==
    (Ran("detect") /\ ~HasAbsent(attendee_events)) =>
        /\ has_conflicts <=>
              \E e \in DOMAIN calendar : \E ev \in Range(calendar[e]) : ShouldConflict(ev)
        /\ \A e \in DOMAIN calendar : \A ev \in Range(calendar[e]) :
              RecordsOf(e, ev) = IF ShouldConflict(ev) THEN 1 ELSE 0
        /\ \A i \in 1..Len(conflicting_meetings) :
              LET rec == conflicting_meetings[i]
              IN  /\ rec.attendee \in DOMAIN calendar
                  /\ rec.meeting \in Range(calendar[rec.attendee])
                  /\ rec.start = rec.meeting.StartTime
                  /\ rec.end = rec.meeting.EndTime
                  /\ rec.summary = rec.meeting.Summary

\* one attendee contributes two records, and another event of the snapshot
\* is protected and overlaps the window
C11_Witness ==
    /\ Ran("detect")
    /\ \E e \in DOMAIN calendar :
          Cardinality({i \in 1..Len(conflicting_meetings) :
                          conflicting_meetings[i].attendee = e}) = 2
    /\ \E e \in DOMAIN calendar : \E ev \in Range(calendar[e]) :
          /\ Protected(ev)
          /\ Occupies(ev, proposed_time.start_time.clock, proposed_time.end_time.clock)

-----------------------------------------------------------------------------
(* C12 *)

\* the intervals of a state: the events of the snapshot and the decision's slots
IntervalsOfState ==
    {<<ev.StartTime, ev.EndTime>> :
        ev \in UNION {Range(calendar[e]) : e \in DOMAIN calendar}}
    \cup {iv \in {<<decision.proposed_final_start, decision.proposed_final_end>>,
                  <<decision.conflicting_final_start, decision.conflicting_final_end>>} :
             Truthy(iv[1]) /\ Truthy(iv[2])}

\* the same intervals, also written with the offset "Z"
IntervalsAsWritten ==
    IntervalsOfState
    \cup {<<[iv[1] EXCEPT !.suffix = "Z"], [iv[2] EXCEPT !.suffix = "Z"]>> :
             iv \in IntervalsOfState}

\* C12: the overlap test of conflict detection and the one of the applier are
\* symmetric, and two intervals that only touch at an endpoint do not overlap.
C12_OverlapSymmetric ==
    \A A, B \in IntervalsAsWritten :
        /\ Overlap(A[1].clock, A[2].clock, B[1].clock, B[2].clock)
              = Overlap(B[1].clock, B[2].clock, A[1].clock, A[2].clock)
        /\ times_overlap(A[1], A[2], B[1], B[2]) = times_overlap(B[1], B[2], A[1], A[2])
        /\ A[2].clock = B[1].clock =>
              /\ ~Overlap(A[1].clock, A[2].clock, B[1].clock, B[2].clock)
              /\ ~times_overlap(A[1], A[2], B[1], B[2])

\* the applier ran with a relocation slot and left alone an event that ends
\* where the final window starts or starts where it ends
C12_Witness ==
    /\ pc = "applied"
    /\ RelocationSet
    /\ \E e \in DOMAIN calendar : \E ev \in Range(calendar[e]) :
          /\ ~Protected(ev)
          /\ \/ ev.EndTime = decision.proposed_final_start
             \/ ev.StartTime = decision.proposed_final_end
          /\ ev \in Range(heap[updated_events[e]])

-----------------------------------------------------------------------------
(* C13 *)

\* the decision is the proposed window, with no relocation
WindowVerbatim ==
    decision = Decision(proposed_time.start_time, proposed_time.end_time, None, None)

\* the attendee's returned calendar is the one they had, less the protected
\* events, plus one event
KeptAndOneMore(att) ==
    /\ \A ev \in Range(calendar[att.email]) : Protected(ev) \/ ev \in Range(att.events)
    /\ Len(att.events) = Len(filter_off_hours_events(calendar[att.email])) + 1

\* C13: when conflict detection finds no conflict the decision is the
\* proposed window verbatim with no relocation slot, and applying it
\* relocates no event.
C13_NoConflictVerbatim ==
    /\ (Ran("detect") /\ ~HasAbsent(attendee_events) /\ ~has_conflicts) =>
          tier = 1 /\ WindowVerbatim
    /\ (pc = "done" /\ tier = 1) =>
          \A i \in 1..Len(response) : KeptAndOneMore(response[i])

\* a tier 1 answer for attendees of whom one has an event outside the window
C13_Witness ==
    /\ pc = "done"
    /\ tier = 1
    /\ \E i \in 1..Len(response) : \E ev \in Range(response[i].events) :
          PreExisting(response[i].email, ev)

-----------------------------------------------------------------------------
(* C14 *)

\* C14: when there are conflicts and the narrow search returns a slot, the
\* decision places the meeting at exactly that slot with no relocation slot,
\* and neither the broad search nor the oracle runs.
C14_NarrowFit ==
    (Ran("narrow") /\ Truthy(first_available.start)) =>
        /\ has_conflicts
        /\ tier = 2
        /\ decision = Decision(first_available.start, first_available.end, None, None)
        /\ ~Ran("broad")
        /\ ~Ran("oracle")

\* a tier 2 answer whose slot is not at the start of the window
C14_Witness ==
    /\ pc = "done"
    /\ tier = 2
    /\ decision.proposed_final_start # proposed_time.start_time
    /\ decision.proposed_final_start = first_available.start

-----------------------------------------------------------------------------
(* C15 *)

\* no attendee has a non-protected event in [s, e)
FreeForAll(s, e) ==
    \A a \in DOMAIN calendar : \A ev \in Range(calendar[a]) :
        Protected(ev) \/ ~Occupies(ev, s, e)

\* tier 2 fired with the meeting at 10:00-10:30, and the oracle was not called
TierTwoAtTen ==
    /\ tier = 2
    /\ decision = Decision(format_time(40), format_time(42), None, None)
    /\ ~Ran("oracle")

\* C15 as stated: a 30-minute request proposed at 09:00-09:30, an attendee
\* with a non-protected conflicting event, 10:00-10:30 free for all attendees:
\* tier 2 fires with the meeting at 10:00-10:30 and no relocation, and the
\* oracle is not called.
C15_ScenarioAsStated ==
    (/\ proposed_time = TimeWindow(36, 38, 2)
     /\ Ran("narrow")
     /\ ~FreeForAll(36, 38)
     /\ FreeForAll(40, 42)) => TierTwoAtTen

\* C15, amended: the same request with the requested window 09:00-12:00, an
\* attendee with a non-protected event that conflicts with 09:00-09:30, and
\* 10:00-10:30 the earliest slot of the window free for all attendees: tier 2
\* fires with the meeting at 10:00-10:30 and no relocation, and neither the
\* broad search nor the oracle is called.
C15_ScenarioInWindow ==
    (/\ proposed_time = TimeWindow(36, 48, 2)
     /\ Ran("narrow")
     /\ ~FreeForAll(36, 38)
     /\ FreeForAll(40, 42)
     /\ \A s \in 36..39 : ~FreeForAll(s, s + 2)) => TierTwoAtTen /\ ~Ran("broad")

\* the scenario with the window 09:00-12:00, answered
C15_Witness ==
    /\ pc = "done"
    /\ proposed_time = TimeWindow(36, 48, 2)
    /\ ~FreeForAll(36, 38)
    /\ TierTwoAtTen
    /\ Len(response) = 2

-----------------------------------------------------------------------------
(* C16 *)

\* C16: when there are conflicts, the narrow search fails and the broad
\* search returns no candidate, the decision is the proposed window verbatim
\* with no relocation slot, returned as a normal result, and the oracle is
\* not called.
C16_NoResolution ==
    (Ran("broad") /\ pc # "sweep" /\ free_slots = <<>>) =>
        /\ has_conflicts
        /\ first_available = NoSlot
        /\ error = ""
        /\ pc \in {"process", "done"}
        /\ tier = 4
        /\ WindowVerbatim
        /\ ~Ran("oracle")

\* a tier 4 answer
C16_Witness ==
    /\ pc = "done"
    /\ tier = 4
    /\ Ran("broad")
    /\ free_slots = <<>>
    /\ \E i \in 1..Len(response) : \E ev \in Range(response[i].events) : IsNewMeeting(ev)

-----------------------------------------------------------------------------
(* C17 *)

\* the broad search has returned
BroadReturned == Ran("broad") /\ pc \notin {"sweep", "except"}

\* C17: every slot the broad search returns has exactly the requested
\* duration and overlaps no non-protected event of any attendee.
C17_CandidatesFree ==
    Ran("broad") =>
        \A i \in 1..Len(free_slots) :
            /\ free_slots[i].end.clock - free_slots[i].start.clock = proposed_time.duration
            /\ FreeForAll(free_slots[i].start.clock, free_slots[i].end.clock)

\* a returned candidate that starts where an event ends and ends where
\* another event starts
C17_Witness ==
    /\ BroadReturned
    /\ \E i \in 1..Len(free_slots) :
          \E a, b \in DOMAIN calendar : \E ev \in Range(calendar[a]), nx \in Range(calendar[b]) :
              /\ ~Protected(ev)
              /\ ~Protected(nx)
              /\ ev.EndTime = free_slots[i].start
              /\ nx.StartTime = free_slots[i].end

-----------------------------------------------------------------------------
(* C18 *)

\* C18: the broad search never returns more than 5 entries.
C18_AtMostFive == BroadReturned => Len(free_slots) <= 5

\* five candidates returned, and a later instant of the horizon is free as well
C18_Witness ==
    /\ BroadReturned
    /\ Len(free_slots) = 5
    /\ \E s \in (free_slots[5].end.clock)..(end_time - proposed_time.duration) :
          FreeForAll(s, s + proposed_time.duration)

-----------------------------------------------------------------------------
(* C19 *)

\* some attendee has a protected event in [s, e)
OverProtected(s, e) ==
    \E a \in DOMAIN calendar : \E ev \in Range(calendar[a]) :
        Protected(ev) /\ Occupies(ev, s, e)

\* C19: the time a protected event occupies is not treated as free time: no
\* slot chosen by the narrow search or by the broad search lies over a
\* protected event.
C19_ProtectedNotFree ==
    /\ (Ran("narrow") /\ Truthy(first_available.start)) =>
          ~OverProtected(first_available.start.clock, first_available.end.clock)
    /\ Ran("broad") =>
          \A i \in 1..Len(free_slots) :
              ~OverProtected(free_slots[i].start.clock, free_slots[i].end.clock)

-----------------------------------------------------------------------------
(* The response as a function of the request, the snapshot and the decision *)

\* requests of every subject, the reserved one included
RespondRequests ==
    {[From |-> Sender, Attendees |-> l, Subject |-> sub] :
        l \in AttendeeLists, sub \in Subjects \cup {OffHours}}

\* a timestamp written with the UTC designator
UtcText(dt) == [clock |-> dt, suffix |-> "Z"]

\* decisions of every origin: the ones above, and an oracle's answer that
\* names 09:00-09:30 in UTC
RespondDecisions ==
    Decisions \cup {Decision(UtcText(36), UtcText(38), None, None)}

InitRespond ==
    /\ request \in RespondRequests
    /\ window = TimeWindow(36, 38, 2)
    /\ calendar \in UNION {Snapshots(K, Calendars(Universe, {1, 2, 4, 5})) :
                             K \in SUBSET Invited(request)}
    /\ pc \in {"apply", "process"}
    /\ retry_count = 0
    /\ proposed_time = window
    /\ futures = <<>>
    /\ attendee_events = [e \in DOMAIN calendar |-> Ref("snap", e)]
    /\ heap = [r \in {Ref("snap", e) : e \in DOMAIN calendar} |-> calendar[r[2]]]
    /\ has_conflicts = FALSE
    /\ conflicting_meetings = <<>>
    /\ first_available = NoSlot
    /\ free_slots = <<>>
    /\ current_time = 0
    /\ end_time = 0
    /\ decision \in RespondDecisions
    /\ updated_events = EmptyDict
    /\ reapplied = EmptyDict
    /\ response = <<>>
    /\ stages = <<>>
    /\ tier = 0
    /\ error = ""

NextRespond ==
    \/ ApplyRescheduling
    \/ ProcessSchedulerResults

SpecRespond == InitRespond /\ [][NextRespond]_vars

-----------------------------------------------------------------------------
(* C20 *)

\* how many events of the list have the proposed final times and the
\* request's subject as summary
MeetingCount(events) ==
    Cardinality({j \in 1..Len(events) :
                    /\ events[j].StartTime = decision.proposed_final_start
                    /\ events[j].EndTime = decision.proposed_final_end
                    /\ events[j].Summary = request.Subject})

\* C20: after a decision with proposed final times is applied and the
\* response built, every attendee of the request, the sender included, has
\* in their returned calendar exactly one event with the proposed final
\* times and the request's subject as summary.
C20_MeetingOnceForAll ==
    (pc = "done" /\ ProposedSet) =>
        /\ \A e \in Invited(request) : \E i \in 1..Len(response) : response[i].email = e
        /\ \A i \in 1..Len(response) : MeetingCount(response[i].events) = 1

-----------------------------------------------------------------------------
(* C21 *)

\* the +05:30 offset, in ticks
IstOffset == 5 * TicksPerHour + 30 \div 15

\* the instant a timestamp names, as ticks of the +05:30 wall clock
Instant(s) == IF Kind(s) = "aware" THEN s.clock + IstOffset ELSE s.clock

\* C21: in the response every attendee's event list is in ascending order of
\* event start time, whatever the decision (an oracle's timestamps included)
\* and whatever the snapshot.
C21_SortedByStart ==
    pc = "done" =>
        \A i \in 1..Len(response) :
            \A j, k \in 1..Len(response[i].events) :
                j < k => Instant(response[i].events[j].StartTime)
                            <= Instant(response[i].events[k].StartTime)

-----------------------------------------------------------------------------
(* C22 *)

-----------------------------------------------------------------------------
(* C26 *)

\* step 1 is to move the event: not protected, and over the proposed slot
Moves(ev) ==
    /\ ~Protected(ev)
    /\ Occupies(ev, decision.proposed_final_start.clock,
                    decision.proposed_final_end.clock)

\* what step 1 is to make of an event of the snapshot
Image(ev) ==
    IF Moves(ev)
    THEN [ev EXCEPT !.StartTime = decision.conflicting_final_start,
                    !.EndTime = decision.conflicting_final_end]
    ELSE ev

Count(x, s) == Cardinality({i \in 1..Len(s) : s[i] = x})

\* the events of the snapshot list that step 1 is to leave alone, in order
Untouched(before) == SelectSeq(before, LAMBDA ev : ~Moves(ev))

\* the list has, event for event, the images of the snapshot list, the
\* events left alone first and in their order
IsMoveOf(after, before) ==
    /\ Len(after) = Len(before)
    /\ \A x \in Range(after) \cup {Image(before[i]) : i \in 1..Len(before)} :
          Count(x, after) = Cardinality({i \in 1..Len(before) : Image(before[i]) = x})
    /\ IsPrefix(Untouched(before), after)

-----------------------------------------------------------------------------
(* C24 *)

\* the retrieval submitted last for the email
LastSubmitted(email) ==
    CHOOSE i \in 1..Len(futures) :
        /\ all_attendees(request)[i] = email
        /\ \A j \in 1..Len(futures) : all_attendees(request)[j] = email => j <= i

\* the entry the collector leaves for the email when the retrievals, with
\* the outcomes they had, complete in the order they were submitted
InSubmissionOrder(email) ==
    Collected(futures[LastSubmitted(email)] = "returned", email)

\* C24: when the fetcher has collected every retrieval, the snapshot has
\* exactly one entry per distinct attendee (the sender and every listed
\* attendee) and does not depend on the order in which the retrievals
\* completed: it is the snapshot that the same outcomes give in submission
\* order, also when an email was submitted more than once and only some of
\* its retrievals failed.
C24_SnapshotOrderFree ==
    (pc = "fetch" /\ AllCollected) =>
        /\ DOMAIN attendee_events = Invited(request)
        /\ \A e \in Invited(request) : attendee_events[e] = InSubmissionOrder(e)

-----------------------------------------------------------------------------
(* C25 *)

\* C25: for every attendee the calendar query covers the day of the proposed
\* window and the following day: it starts at 00:00 of the start day and
\* runs through the end of start-day + 1.
C25_QueryTwoDays ==
    pc = "fetch" =>
        /\ start_day_time_stamp(proposed_time).clock
               = DayOf(proposed_time.start_time) * TicksPerDay
        /\ end_day_plus_one_time_stamp(proposed_time).clock
               >= (DayOf(proposed_time.start_time) + 1) * TicksPerDay
                      + (TicksPerDay - 1)

-----------------------------------------------------------------------------
(* C23 *)

\* retrievals not yet collected
Pending == Cardinality({i \in 1..Len(futures) : futures[i] = "pending"})

\* how far the current pipeline run is from its end
Remaining ==
    CASE pc = "extract" -> 900
      [] pc = "submit" -> 890
      [] pc = "fetch" -> 880 + Pending
      [] pc = "narrow" -> 870
      [] pc = "broad" -> 860
      [] pc = "sweep" -> 400 + Max(0, end_time - current_time)
      [] pc = "oracle" -> 300
      [] pc = "process" -> 200
      [] OTHER -> 0

\* a measure of the work the handler has left: the attempts it may still
\* start, then the rest of the current attempt
Rank == (3 - retry_count) * 1000 + Remaining

\* C23: the request handler runs the whole pipeline at most 3 times (one
\* attempt and up to 2 retries).  A successful attempt ends the handler with
\* that attempt's response, the third failure in a row ends it with a
\* failure, every retry starts again from extraction (the oracle call is
\* never retried alone), and every step brings the handler closer to its
\* end, so that it always terminates.
C23_BoundedRetries ==
    [][ /\ pc \notin {"done", "failed"}
        /\ retry_count' <= 3
        /\ pc' # "failed" => retry_count' <= 2
        /\ pc' = "failed" => (retry_count' = 3 /\ pc = "except")
        /\ pc' = "done" => (pc = "process" /\ error' = "")
        /\ pc # "except" => retry_count' = retry_count
        /\ (pc = "except" /\ pc' # "failed") =>
              /\ retry_count' = retry_count + 1
              /\ pc' = "extract"
              /\ stages' = <<>>
              /\ attendee_events' = EmptyDict
              /\ decision' = NoDecision
        /\ Rank' < Rank
      ]_vars

\* the handler gave up after three attempts, the third ended by the oracle
C23_Witness == pc = "failed" /\ retry_count = 3 /\ Ran("oracle")

-----------------------------------------------------------------------------
(* C27 *)

\* the snapshot holds an event that is not protected
HasBusyEvent ==
    \E e \in DOMAIN attendee_events :
        /\ attendee_events[e] # NoneRef
        /\ \E ev \in Range(heap[attendee_events[e]]) : ~Protected(ev)

\* C27: in every pipeline run, whenever the broad search is invoked the
\* snapshot holds at least one non-protected event, so the lookup of the
\* earliest event never fails on an empty list.
C27_BroadHasEvents ==
    (pc = "broad" \/ Ran("broad")) => (HasBusyEvent /\ error # "IndexError")

\* the broad search is scanning a snapshot whose only event that is not
\* protected is one event of one attendee
C27_Witness ==
    /\ pc = "sweep" /\ Ran("broad")
    /\ Len(all_events_of(Contents(attendee_events, heap))) = 1
    /\ \E e \in DOMAIN calendar : \E ev \in Range(calendar[e]) : Protected(ev)

-----------------------------------------------------------------------------
(* C29 *)

\* the proposed window is exactly as long as the requested duration
ExactWindow ==
    /\ Truthy(proposed_time.start_time)
    /\ proposed_time.end_time.clock
          = proposed_time.start_time.clock + proposed_time.duration

\* C29: when the proposed window is exactly as long as the requested
\* duration (and every event has start < end), the narrow search, run
\* because conflicts were detected, returns (None, None): case 2 never
\* returns and the run goes on to the broad search.
C29_ExactWindowNoFit ==
    (ExactWindow /\ Ran("narrow")) =>
        /\ has_conflicts
        /\ first_available = NoSlot
        /\ tier # 2
        /\ pc = "broad" \/ Ran("broad")

\* a conflicting request with an exact window went through the narrow and
\* the broad search and was answered
C29_Witness ==
    /\ ExactWindow /\ Ran("narrow") /\ Ran("broad")
    /\ pc = "done"

-----------------------------------------------------------------------------
(* C28 *)

\* the ends of the non-protected events of the snapshot
EventEnds ==
    {ev.EndTime.clock :
        ev \in {x \in UNION {Range(calendar[e]) : e \in DOMAIN calendar} :
                   ~Protected(x)}}

\* C28: the scan of the broad search terminates for every snapshot with a
\* non-protected event and every duration >= 0: an iteration is taken only
\* below the horizon, leaves the horizon where it is, and moves the current
\* instant strictly forward, either by the 30-minute stride or to the end
\* of a conflicting event (or to the horizon), and never beyond the horizon
\* by more than one stride.
C28_ScanAdvances ==
    [][ (pc = "sweep" /\ pc' = "sweep") =>
          /\ current_time < end_time
          /\ end_time' = end_time
          /\ current_time' > current_time
          /\ \/ current_time' = current_time + Stride
             \/ /\ current_time' \in EventEnds \cup {end_time}
                /\ current_time' <= end_time
      ]_vars

\* the scan, run with duration 0, stands inside an event it did not meet at
\* the event's start
C28_Witness ==
    /\ pc = "sweep"
    /\ proposed_time.duration = 0
    /\ current_time < end_time
    /\ \E i \in Hit(all_events_of(calendar), current_time, 0) :
          all_events_of(calendar)[i].start < current_time

-----------------------------------------------------------------------------
(* request_to_time.py: from the request's date and the extracted relative    *)
(* time to the meeting times.  Day 0 is Monday 2025-07-21.  A relative time  *)
(* is read as the words it contains and the clock text the time pattern      *)
(* finds in it.                                                              *)

\* days_of_week: the names, monday = 0 first
WeekdayNames ==
    <<"monday", "tuesday", "wednesday", "thursday", "friday", "saturday", "sunday">>

\* no match of the time pattern
NoClock == [hour |-> 0, minute |-> 0, period |-> "no match"]

Clock(h, m, p) == [hour |-> h, minute |-> m, period |-> p]

\* not relative_time: the empty text
Blank(relative_time) == relative_time.words = {} /\ relative_time.clock = NoClock

\* the date of a datetime, as a day number
DateOf(dt) == dt \div TicksPerDay

\* base_datetime.weekday()
weekday(dt) == DateOf(dt) % 7

\* dt.replace(hour=..., minute=..., second=0)
replace(dt, hour, minute) ==
    DateOf(dt) * TicksPerDay + hour * TicksPerHour + minute \div 15

\* replace raises ValueError for an hour or a minute out of range
ReplaceRaises(hour, minute) == hour \notin 0..23 \/ minute \notin 0..59

\* _find_target_date
find_target_date(base_datetime, relative_time) ==
    LET named == {i \in 1..Len(WeekdayNames) : WeekdayNames[i] \in relative_time.words}
        day_num == (CHOOSE i \in named : \A j \in named : i <= j) - 1
        days_ahead == (day_num - weekday(base_datetime)) % 7
    IN  IF named # {}
        THEN base_datetime
                 + (IF days_ahead = 0 THEN 7 ELSE days_ahead) * TicksPerDay
        ELSE IF "next week" \in relative_time.words
        THEN base_datetime + 7 * TicksPerDay
        ELSE base_datetime + TicksPerDay

\* the hour on the 24-hour clock that _calculate_start_time makes of a match
Hour24(clock) ==
    IF clock.period = "pm" /\ clock.hour # 12 THEN clock.hour + 12
    ELSE IF clock.period = "am" /\ clock.hour = 12 THEN 0
    ELSE clock.hour

\* _calculate_start_time: the start, or that it raised
calculate_start_time(base_datetime, relative_time) ==
    IF Blank(relative_time)
    THEN [raised |-> FALSE,
          dt |-> (base_datetime \div TicksPerHour) * TicksPerHour + TicksPerHour]
    ELSE IF relative_time.clock # NoClock
    THEN IF ReplaceRaises(Hour24(relative_time.clock), relative_time.clock.minute)
         THEN [raised |-> TRUE, dt |-> base_datetime]
         ELSE [raised |-> FALSE,
               dt |-> replace(find_target_date(base_datetime, relative_time),
                              Hour24(relative_time.clock), relative_time.clock.minute)]
    ELSE [raised |-> FALSE,
          dt |-> replace(find_target_date(base_datetime, relative_time), 10, 0)]

\* _calculate_meeting_times: start and end as text; the request's own
\* date-time is the start when the calculation raised
calculate_meeting_times(base_datetime, duration, relative_time) ==
    LET r == calculate_start_time(base_datetime, relative_time)
        start_dt == IF r.raised THEN base_datetime ELSE r.dt
    IN  [start_time |-> format_time(start_dt),
         end_time |-> format_time(start_dt + duration),
         duration |-> duration]

\* relative times an extraction may give: nothing, a weekday, two weekdays,
\* "next" with a weekday, "next week", "next", another word
RelativeWords ==
    {{}} \cup {{WeekdayNames[i]} : i \in 1..Len(WeekdayNames)}
         \cup {{"sunday", "monday"}, {"next", "thursday"}, {"next week", "next"},
               {"next"}, {"tomorrow"}}

\* clock texts: none, 9:00 am, 12:00 am, 2:30 pm, 12:00 pm, 11:00, 14:00 pm
ClockTexts ==
    {NoClock, Clock(9, 0, "am"), Clock(12, 0, "am"), Clock(2, 30, "pm"),
     Clock(12, 0, "pm"), Clock(11, 0, ""), Clock(14, 0, "pm")}

\* requests dated Saturday 2025-07-19 to Friday 2025-07-25, at 09:00 or 12:30,
\* with what the extraction reads in the email: a duration of 30 or 60
\* minutes and a relative time
DatedRequests ==
    {[From |-> Sender, Attendees |-> <<"b">>, Subject |-> "Sync",
      Datetime |-> day * TicksPerDay + t,
      EmailContent |-> [duration_minutes |-> d,
                        relative_time |-> [words |-> w, clock |-> c]]] :
        day \in (0 - 2)..4, t \in {36, 50}, d \in {2, 4},
        w \in RelativeWords, c \in ClockTexts}

InitExtract ==
    /\ request \in DatedRequests
    /\ window = NoWindow
    /\ calendar = [e \in Invited(request) |-> <<>>]
    /\ pc = "extract"
    /\ retry_count = 0
    /\ proposed_time = NoWindow
    /\ futures = <<>>
    /\ attendee_events = EmptyDict
    /\ heap = EmptyHeap
    /\ has_conflicts = FALSE
    /\ conflicting_meetings = <<>>
    /\ first_available = NoSlot
    /\ free_slots = <<>>
    /\ current_time = 0
    /\ end_time = 0
    /\ decision = NoDecision
    /\ updated_events = EmptyDict
    /\ reapplied = EmptyDict
    /\ response = <<>>
    /\ stages = <<>>
    /\ tier = 0
    /\ error = ""

\* extract_meeting_info from the parsed date and the extracted information on
CalculateMeetingTimes ==
    /\ pc = "extract"
    /\ proposed_time' = calculate_meeting_times(
                            request.Datetime, request.EmailContent.duration_minutes,
                            request.EmailContent.relative_time)
    /\ pc' = "extracted"
    /\ UNCHANGED <<request, window, calendar, retry_count, futures, attendee_events,
                   heap, has_conflicts, conflicting_meetings, first_available,
                   free_slots, current_time, end_time, decision, updated_events,
                   reapplied, response, stages, tier, error>>

NextExtract == CalculateMeetingTimes

SpecExtract == InitExtract /\ [][NextExtract]_vars

-----------------------------------------------------------------------------
(* C30 *)

\* the weekdays the relative time of the request names, monday = 0
NamedWeekdays ==
    {i - 1 : i \in {j \in 1..Len(WeekdayNames) :
                      WeekdayNames[j] \in request.EmailContent.relative_time.words}}

\* C30: when the extracted relative time names a weekday, the computed
\* meeting date falls on that weekday and is between 1 and 7 days after the
\* request date (the request's own weekday resolves to the next week, never
\* to the same day), and the end is the start plus the duration; for a
\* request dated Saturday 19-07-2025 that says Thursday with no clock time
\* the start is 2025-07-24T10:00:00+05:30.
C30_WeekdayResolved ==
    (pc = "extracted" /\ NamedWeekdays # {}) =>
        /\ weekday(proposed_time.start_time.clock) \in NamedWeekdays
        /\ DateOf(proposed_time.start_time.clock) - DateOf(request.Datetime) \in 1..7
        /\ proposed_time.end_time.clock
              = proposed_time.start_time.clock + proposed_time.duration
        /\ ( /\ DateOf(request.Datetime) = 0 - 2
             /\ request.EmailContent.relative_time.words = {"thursday"}
             /\ request.EmailContent.relative_time.clock = NoClock )
           => proposed_time.start_time = format_time(3 * TicksPerDay + 10 * TicksPerHour)

====
